---------------------------- MODULE Spec2Model ----------------------------
(***************************************************************************)
(* hex2dec: a line filter that rewrites hexadecimal tokens as right-       *)
(* justified decimal numbers.  The module models                           *)
(*   - the token matcher, the regex \b(0x)?([0-9a-fA-F]{2,})\b,            *)
(*   - replace_all / hex2dec_line, with u128 arithmetic on 16-bit limbs,   *)
(*   - the stream driver parse_stdin and its wrapper parse_ci.             *)
(* A string is a sequence of one-character strings; offsets are 0-based    *)
(* and half-open as in the source.                                         *)
(***************************************************************************)
EXTENDS Integers, Sequences, FiniteSets, TLC

VARIABLES
    hline,          \* hex2dec_line: the argument `line`
    hskip,          \* hex2dec_line: the argument `skip_error`
    hres,           \* hex2dec_line: its Result, or NotCalled
    hcaps,          \* hex2dec_line: the captures the call iterated over
    windows,        \* cfg!(windows) of the build
    skip_parse_errors, stop_on_error, break_nl,   \* arguments of parse_stdin
    stdin,          \* the lines that the standard input holds
    nread,          \* number of lines read_line has returned so far
    line,           \* parse_stdin's buffer `line`
    sinks,          \* the callback invocations so far, in order
    pc,             \* position in parse_stdin / parse_ci
    result,         \* what parse_stdin returned
    origin,         \* ghost: the call that produced the returned error
    stderr          \* what parse_ci printed

hvars == <<hline, hskip, hres, hcaps>>
dvars == <<windows, skip_parse_errors, stop_on_error, break_nl,
           stdin, nread, line, sinks, pc, result, origin, stderr>>
vars == <<hline, hskip, hres, hcaps, windows, skip_parse_errors, stop_on_error,
          break_nl, stdin, nread, line, sinks, pc, result, origin,
          stderr>>

-----------------------------------------------------------------------------
(* Bounds of the model *)

\* longest line enumerated character by character
MaxLen == 4
\* most pieces of a line assembled from multi-character pieces
MaxPieces == 4
\* most lines on the standard input
MaxLines == 3

-----------------------------------------------------------------------------
(* Characters *)

DecChar == <<"0", "1", "2", "3", "4", "5", "6", "7", "8", "9">>
LowerHexChar == DecChar \o <<"a", "b", "c", "d", "e", "f">>
UpperHexChar == DecChar \o <<"A", "B", "C", "D", "E", "F">>

HexDigits == {LowerHexChar[i] : i \in 1..16} \cup {UpperHexChar[i] : i \in 1..16}

\* the class [0-9a-fA-F]
IsHexDigit(c) == c \in HexDigits

DigitValue ==
    [c \in HexDigits |->
        (CHOOSE i \in 1..16 : c = LowerHexChar[i] \/ c = UpperHexChar[i]) - 1]

\* char::to_digit(16) for a character of the class
to_digit(c) == DigitValue[c]

AsciiLetters ==
    {"a", "b", "c", "d", "e", "f", "g", "h", "i", "j", "k", "l", "m",
     "n", "o", "p", "q", "r", "s", "t", "u", "v", "w", "x", "y", "z",
     "A", "B", "C", "D", "E", "F", "G", "H", "I", "J", "K", "L", "M",
     "N", "O", "P", "Q", "R", "S", "T", "U", "V", "W", "X", "Y", "Z"}

AsciiWordChars == AsciiLetters \cup {"_"} \cup {DecChar[i] : i \in 1..10}

\* [0-9A-Za-z_]
IsAsciiWordChar(c) == c \in AsciiWordChars

\* letters outside ASCII that occur in the modelled inputs
NonAsciiLetters == {"é"}

\* a regex built without (?-u): word characters are ASCII only
IsWordCharAscii(c) == IsAsciiWordChar(c)

\* \w as the regex uses it for \b: the pattern is compiled by Regex::new with
\* default flags, so \b is the Unicode word boundary and \w holds every
\* alphabetic character, not only ASCII
IsWordChar(c) == IsAsciiWordChar(c) \/ c \in NonAsciiLetters

-----------------------------------------------------------------------------
(* Token matcher: \b(0x)?([0-9a-fA-F]{2,})\b *)

Max(a, b) == IF a >= b THEN a ELSE b

\* the substring s[a..b) of 0-based offsets
Slice(s, a, b) == SubSeq(s, a + 1, b)

WordAt(s, i) == i >= 0 /\ i < Len(s) /\ IsWordChar(s[i + 1])

\* \b at offset i: exactly one side is a word character
WordBoundary(s, i) == WordAt(s, i - 1) # WordAt(s, i)

\* a prefix group (?i:0x)
HasPrefixAnyCase(s, p) ==
    p + 2 <= Len(s) /\ s[p + 1] = "0" /\ s[p + 2] \in {"x", "X"}

\* the group (0x) at offset p
HasPrefix(s, p) == p + 2 <= Len(s) /\ s[p + 1] = "0" /\ s[p + 2] = "x"

\* the least element of a non-empty set of numbers
Min(S) == CHOOSE m \in S : \A k \in S : m <= k

\* length of the run of hex digits at offset i: up to the first offset that
\* is the end of s or holds another character
HexRun(s, i) ==
    (CHOOSE j \in i..Len(s) :
        /\ j = Len(s) \/ ~IsHexDigit(s[j + 1])
        /\ \A k \in i..(j - 1) : IsHexDigit(s[k + 1])) - i

\* ([0-9a-fA-F]{2,})\b at offset i: the greedy quantifier takes the whole run
\* and gives characters back, never fewer than 2 left, until \b holds; the
\* end offset, or -1
DigitsEnd(s, i) ==
    LET ends == {i + k : k \in 2..HexRun(s, i)}
        good == {e \in ends : WordBoundary(s, e)}
    IN  IF good = {} THEN -1 ELSE CHOOSE e \in good : \A f \in good : f <= e

NoMatch == [start |-> -1, end |-> -1, g2 |-> -1]

\* the match anchored at offset p: group 0 is [start, end), group 2 is
\* [g2, end); the optional group is tried present first
MatchAt(s, p) ==
    IF ~WordBoundary(s, p) THEN NoMatch
    ELSE LET with == IF HasPrefix(s, p) THEN DigitsEnd(s, p + 2) ELSE -1
         IN  IF with # -1 THEN [start |-> p, end |-> with, g2 |-> p + 2]
             ELSE LET without == DigitsEnd(s, p)
                  IN  IF without # -1
                      THEN [start |-> p, end |-> without, g2 |-> p]
                      ELSE NoMatch

\* the leftmost match starting at or after offset p
FindFrom(s, p) ==
    LET hits == {q \in p..Len(s) : MatchAt(s, q) # NoMatch}
    IN  IF hits = {} THEN NoMatch ELSE MatchAt(s, Min(hits))

\* Regex::captures_iter: successive leftmost matches, each search starting
\* where the previous match ended
RECURSIVE CapturesFrom(_, _)
CapturesFrom(s, p) ==
    LET m == FindFrom(s, p)
    IN  IF m = NoMatch THEN <<>> ELSE <<m>> \o CapturesFrom(s, m.end)

captures_iter(s) == CapturesFrom(s, 0)

-----------------------------------------------------------------------------
(* u128 on 8 limbs of 16 bits, least significant first *)

\* the width of the integer type that hex2dec_line parses into
U128Bits == 128

\* the number of decimal digits of the largest u128
U128DecDigits == 39

LimbBase == 2 ^ 16

ZeroU128 == <<0, 0, 0, 0, 0, 0, 0, 0>>

\* x * m + c on 128 bits; carry is what does not fit
MulAdd(x, m, c) ==
    LET t1 == x[1] * m + c
        t2 == x[2] * m + t1 \div LimbBase
        t3 == x[3] * m + t2 \div LimbBase
        t4 == x[4] * m + t3 \div LimbBase
        t5 == x[5] * m + t4 \div LimbBase
        t6 == x[6] * m + t5 \div LimbBase
        t7 == x[7] * m + t6 \div LimbBase
        t8 == x[8] * m + t7 \div LimbBase
    IN  [val |-> <<t1 % LimbBase, t2 % LimbBase, t3 % LimbBase,
                   t4 % LimbBase, t5 % LimbBase, t6 % LimbBase,
                   t7 % LimbBase, t8 % LimbBase>>,
         carry |-> t8 \div LimbBase]

\* x divided by d, from the most significant limb down
DivMod(x, d) ==
    LET t8 == x[8]
        t7 == (t8 % d) * LimbBase + x[7]
        t6 == (t7 % d) * LimbBase + x[6]
        t5 == (t6 % d) * LimbBase + x[5]
        t4 == (t5 % d) * LimbBase + x[4]
        t3 == (t4 % d) * LimbBase + x[3]
        t2 == (t3 % d) * LimbBase + x[2]
        t1 == (t2 % d) * LimbBase + x[1]
    IN  [val |-> <<t1 \div d, t2 \div d, t3 \div d, t4 \div d,
                   t5 \div d, t6 \div d, t7 \div d, t8 \div d>>,
         rem |-> t1 % d]

PosOverflow == [kind |-> "PosOverflow"]

\* one turn of the loop of from_str_radix: checked_mul by the radix, then
\* checked_add of the digit
ParseDigit(acc, radix, c) ==
    LET mul == MulAdd(acc, radix, 0)
        add == MulAdd(mul.val, 1, to_digit(c))
    IN  IF mul.carry # 0 \/ add.carry # 0
        THEN [ok |-> FALSE, err |-> PosOverflow]
        ELSE [ok |-> TRUE, val |-> add.val]

\* the loop of from_str_radix over the digits src[lo..hi], left to right,
\* from the result r of the digits before them; the first overflow ends it.
\* The range is halved so that the evaluation stays shallow.
RECURSIVE ParseDigits(_, _, _, _, _)
ParseDigits(src, radix, lo, hi, r) ==
    IF lo > hi \/ ~r.ok THEN r
    ELSE IF lo = hi THEN ParseDigit(r.val, radix, src[lo])
    ELSE LET mid == (lo + hi) \div 2
             left == ParseDigits(src, radix, lo, mid, r)
         IN  IF ~left.ok THEN left
             ELSE ParseDigits(src, radix, mid + 1, hi, left)

\* u64::from_str_radix(src, radix)
from_str_radix_u64(src, radix) ==
    LET r == ParseDigits(src, radix, 1, Len(src), [ok |-> TRUE, val |-> ZeroU128])
    IN  IF r.ok /\ \E i \in 5..8 : r.val[i] # 0
        THEN [ok |-> FALSE, err |-> PosOverflow]
        ELSE r

\* u128::from_str_radix(src, radix)
from_str_radix(src, radix) ==
    ParseDigits(src, radix, 1, Len(src), [ok |-> TRUE, val |-> ZeroU128])

Spaces(n) == [i \in 1..n |-> " "]
Zeros(n) == [i \in 1..n |-> "0"]

\* the n lowest decimal digits of x, most significant first, and what is
\* left of x: x / 10^n.  The count is halved so that the evaluation stays
\* shallow.
RECURSIVE DecDigits(_, _)
DecDigits(x, n) ==
    IF n = 1
    THEN LET r == DivMod(x, 10)
         IN  [q |-> r.val, digits |-> <<DecChar[r.rem + 1]>>]
    ELSE LET h == n \div 2
             low == DecDigits(x, h)
         IN  IF low.q = ZeroU128
             THEN [q |-> ZeroU128, digits |-> Zeros(n - h) \o low.digits]
             ELSE LET high == DecDigits(low.q, n - h)
                  IN  [q |-> high.q, digits |-> high.digits \o low.digits]

\* Display for u128: the decimal digits without leading zeros
to_string(x) ==
    LET d == DecDigits(x, U128DecDigits).digits
        nz == {i \in 1..Len(d) : d[i] # "0"}
    IN  IF nz = {} THEN <<"0">> ELSE SubSeq(d, Min(nz), Len(d))

\* format!("{:<width$}", dec)
FormatLeft(dec, width) ==
    LET d == to_string(dec)
    IN  IF Len(d) >= width THEN d ELSE d \o Spaces(width - Len(d))

\* format!("{:width$}", dec): numbers are right-aligned, padded by spaces,
\* never truncated
Format(dec, width) ==
    LET d == to_string(dec)
    IN  IF Len(d) >= width THEN d ELSE Spaces(width - Len(d)) \o d

-----------------------------------------------------------------------------
(* hex2dec_line *)

\* a closure that propagates the parse error whatever skip_error is
ReplacementNeverSkip(s, m, skip_error) ==
    LET hex_str == Slice(s, m.g2, m.end)
        dec == from_str_radix(hex_str, 16)
    IN  IF dec.ok THEN [ok |-> TRUE, val |-> Format(dec.val, m.end - m.start)]
        ELSE [ok |-> FALSE, err |-> dec.err]

\* a closure that keeps the original substring whatever skip_error is
ReplacementAlwaysSkip(s, m, skip_error) ==
    LET hex_str == Slice(s, m.g2, m.end)
        dec == from_str_radix(hex_str, 16)
    IN  IF dec.ok THEN [ok |-> TRUE, val |-> Format(dec.val, m.end - m.start)]
        ELSE [ok |-> TRUE, val |-> Slice(s, m.start, m.end)]

\* the closure hex2dec_line passes to replace_all, applied to the match m
Replacement(s, m, skip_error) ==
    LET format_length == m.end - m.start
        hex_str == Slice(s, m.g2, m.end)
        dec == from_str_radix(hex_str, 16)
    IN  IF dec.ok THEN [ok |-> TRUE, val |-> Format(dec.val, format_length)]
        ELSE IF skip_error THEN [ok |-> TRUE, val |-> Slice(s, m.start, m.end)]
        ELSE [ok |-> FALSE, err |-> dec.err]

\* the loop of replace_all from the k-th match on; `new` is the output built
\* so far and last_match the end of the previous match
RECURSIVE ReplaceLoop(_, _, _, _, _, _)
ReplaceLoop(s, skip_error, caps, k, new, last_match) ==
    IF k > Len(caps)
    THEN [ok |-> TRUE, val |-> new \o Slice(s, last_match, Len(s))]
    ELSE LET m == caps[k]
             r == Replacement(s, m, skip_error)
         IN  IF ~r.ok THEN [ok |-> FALSE, err |-> r.err]
             ELSE ReplaceLoop(s, skip_error, caps, k + 1,
                              new \o Slice(s, last_match, m.start) \o r.val,
                              m.end)

replace_all(s, skip_error) ==
    ReplaceLoop(s, skip_error, captures_iter(s), 1, <<>>, 0)

hex2dec_line(s, skip_error) == replace_all(s, skip_error)

-----------------------------------------------------------------------------
(* Inputs *)

RECURSIVE Flatten(_)
Flatten(q) == IF q = <<>> THEN <<>> ELSE Head(q) \o Flatten(Tail(q))

SeqsUpTo(S, n) == UNION {[1..k -> S] : k \in 0..n}

\* the largest u128, 32 hex digits
F32 == [i \in 1..(U128Bits \div 4) |-> "f"]

Alphabet == {"0", "1", "f", "x", "X", " ", "é"}

Pieces == {<<"0", "x">>, <<"0">>, <<"1">>, <<" ", "1", "F", " ">>, F32}

\* every line of at most MaxLen characters of Alphabet, and every line made
\* of at most MaxPieces of Pieces
Lines ==
    SeqsUpTo(Alphabet, MaxLen) \cup {Flatten(q) : q \in SeqsUpTo(Pieces, MaxPieces)}

NotCalled == [ok |-> FALSE, err |-> [kind |-> "NotCalled"]]

Idle ==
    /\ windows = FALSE /\ skip_parse_errors = FALSE /\ stop_on_error = FALSE
    /\ break_nl = FALSE
    /\ stdin = <<>>
    /\ nread = 0 /\ line = <<>> /\ sinks = <<>> /\ pc = "idle"
    /\ result = "none" /\ origin = "none" /\ stderr = <<>>

-----------------------------------------------------------------------------
(* The transformer alone: hex2dec_line applied to one line *)

InitLine ==
    /\ hline \in Lines
    /\ hskip \in BOOLEAN
    /\ hres = NotCalled
    /\ hcaps = <<>>
    /\ Idle

Hex2DecLine ==
    /\ pc = "idle"
    /\ hres = NotCalled
    /\ hcaps' = captures_iter(hline)
    /\ hres' = hex2dec_line(hline, hskip)
    /\ UNCHANGED <<hline, hskip>>
    /\ UNCHANGED dvars

NextLine == Hex2DecLine

SpecLine == InitLine /\ [][NextLine]_vars

-----------------------------------------------------------------------------
(* What the claims about the transformer are stated with *)

Called == hres # NotCalled

Inner(s, m) == Slice(s, m.g2, m.end)
Outer(s, m) == Slice(s, m.start, m.end)

\* d without its leading c's
Strip(d, c) ==
    LET keep == {i \in 1..Len(d) : d[i] # c}
    IN  IF keep = {} THEN <<>> ELSE SubSeq(d, Min(keep), Len(d))

\* the digits denote a number of 2^128 or more: more than 32 significant digits
TooBig(digits) == Len(Strip(digits, "0")) > U128Bits \div 4

\* the hex digit values of a u128, most significant first
NibblesOf(x) ==
    [j \in 1..(4 * Len(x)) |->
        LET limb == x[Len(x) - ((j - 1) \div 4)]
            k == (j - 1) % 4
        IN  (limb \div (16 ^ (3 - k))) % 16]

\* the value of a decimal numeral read back as a u128, as hex digit values
\* without leading zeros
HexOfDecimal(d) ==
    LET r == ParseDigits(d, 10, 1, Len(d), [ok |-> TRUE, val |-> ZeroU128])
    IN  IF r.ok THEN Strip(NibblesOf(r.val), 0) ELSE <<-1>>

\* the value of a hex numeral, as hex digit values without leading zeros
HexOfHex(h) == Strip([j \in 1..Len(h) |-> DigitValue[h[j]]], 0)

\* length of the run of characters of S at offset i of s
RunOf(s, i, S) ==
    (CHOOSE j \in i..Len(s) :
        /\ j = Len(s) \/ s[j + 1] \notin S
        /\ \A k \in i..(j - 1) : s[k + 1] \in S) - i

SpaceRun(s, i) == RunOf(s, i, {" "})

DigitRun(s, i) == RunOf(s, i, {DecChar[k] : k \in 1..10})

\* the field that starts at offset o of out, of `pad` spaces and then `nd`
\* digits, is the decimal rendering of the hex numeral `inner`, right-
\* justified in `width` columns, neither truncated nor zero-padded
IsField(out, o, pad, nd, inner, width) ==
    LET digits == Slice(out, o + pad, o + pad + nd)
    IN  /\ nd >= 1
        /\ pad + nd = Max(width, nd)
        /\ (nd > 1 => digits[1] # "0")
        /\ HexOfDecimal(digits) = HexOfHex(inner)

\* out is s with the matches caps[k..] rewritten: what lies between matches
\* is copied, a match whose digits fit 128 bits is replaced by its field, and
\* a match whose digits do not fit is kept as it is
RECURSIVE Rewritten(_, _, _, _, _, _)
Rewritten(s, out, caps, k, si, oi) ==
    IF k > Len(caps)
    THEN Slice(s, si, Len(s)) = Slice(out, oi, Len(out))
    ELSE LET m == caps[k]
             o == oi + (m.start - si)
             width == m.end - m.start
         IN  /\ o <= Len(out)
             /\ Slice(s, si, m.start) = Slice(out, oi, o)
             /\ IF TooBig(Inner(s, m))
                THEN /\ o + width <= Len(out)
                     /\ Slice(out, o, o + width) = Outer(s, m)
                     /\ Rewritten(s, out, caps, k + 1, m.end, o + width)
                ELSE LET pad == SpaceRun(out, o)
                         nd == DigitRun(out, o + pad)
                     IN  /\ IsField(out, o, pad, nd, Inner(s, m), width)
                         /\ Rewritten(s, out, caps, k + 1, m.end, o + pad + nd)

\* the tokens of s by the recognition rule, for a given class of word
\* characters: a boundary before, an optional lowercase 0x, a maximal run of
\* at least 2 hex digits, a boundary after
RuleTokens(s, W(_)) ==
    LET Before == {a \in 0..Len(s) : a = 0 \/ ~W(s[a])}
        After == {b \in 0..Len(s) : b = Len(s) \/ ~W(s[b + 1])}
        Cand == {[start |-> a, end |-> b, g2 |-> a + d] :
                    a \in Before, b \in After, d \in {0, 2}}
    IN  {t \in Cand :
            /\ t.end - t.g2 >= 2
            /\ (t.g2 = t.start + 2 =>
                    s[t.start + 1] = "0" /\ s[t.start + 2] = "x")
            /\ \A j \in (t.g2 + 1)..t.end : IsHexDigit(s[j])
            /\ (t.end = Len(s) \/ ~IsHexDigit(s[t.end + 1]))}

\* of the tokens of the rule, the leftmost non-overlapping ones
LeftmostTokens(s, W(_)) ==
    LET T == RuleTokens(s, W)
    IN  {t \in T : ~\E u \in T : u.start < t.start /\ t.start < u.end}

Range(q) == {q[k] : k \in 1..Len(q)}

\* the Unicode word characters among the characters of the inputs
IsUnicodeWordChar(c) == IsAsciiWordChar(c) \/ c = "é"

\* the captures are in order and do not overlap
Ordered(caps) == \A k \in 1..(Len(caps) - 1) : caps[k].end <= caps[k + 1].start

\* "0X" and then at least two hex digits, delimited by word boundaries
UpperPrefixTokens(s) ==
    LET Before == {a \in 0..Len(s) : a = 0 \/ ~IsAsciiWordChar(s[a])}
        After == {b \in 0..Len(s) : b = Len(s) \/ ~IsAsciiWordChar(s[b + 1])}
    IN  {t \in [start : Before, end : After] :
            /\ t.end - t.start >= 4
            /\ s[t.start + 1] = "0" /\ s[t.start + 2] = "X"
            /\ \A j \in (t.start + 3)..t.end : IsHexDigit(s[j])}

-----------------------------------------------------------------------------
(* Claims about the transformer, checked under SpecLine *)

\* C1: hex2dec_line(line, false), when it returns a line, has replaced every
\* matched token (with its 0x prefix, if any) by the decimal rendering of its
\* hex digits, right-justified by spaces in a field as wide as the token and
\* never truncated, and has copied everything else unchanged and in order.
C1_WidthPreservingSubstitution ==
    (Called /\ ~hskip /\ hres.ok) =>
        Rewritten(hline, hres.val, hcaps, 1, 0, 0)

C1_Witness ==
    /\ Called /\ ~hskip
    /\ hline = <<"0", "x", "1", "1", " ", "1", "F", " ">>
    /\ hres.ok
    /\ hres.val = <<" ", " ", "1", "7", " ", "3", "1", " ">>

\* C2 as stated: the tokens matched are exactly the leftmost non-overlapping
\* tokens of the recognition rule with [0-9A-Za-z_] as the word characters.
C2_AsciiBoundaries ==
    Called => Range(hcaps) = LeftmostTokens(hline, IsAsciiWordChar)

\* C2 amended: the tokens matched are exactly the leftmost non-overlapping
\* tokens of the recognition rule with the Unicode word characters (the
\* ASCII ones and every letter outside ASCII) as the word characters, in
\* order of position.
C2_UnicodeBoundaries ==
    Called =>
        /\ Range(hcaps) = LeftmostTokens(hline, IsUnicodeWordChar)
        /\ Ordered(hcaps)

C2_Witness ==
    /\ Called
    /\ hline = <<"é", " ", "f", "f">>
    /\ hcaps = <<[start |-> 2, end |-> 4, g2 |-> 2]>>

\* the first match of s whose digits do not fit 128 bits
FirstTooBig(s) ==
    LET caps == captures_iter(s)
        k == CHOOSE j \in 1..Len(caps) :
                /\ TooBig(Inner(s, caps[j]))
                /\ \A i \in 1..(j - 1) : ~TooBig(Inner(s, caps[i]))
    IN  Inner(s, caps[k])

HasTooBig(s, caps) == \E k \in 1..Len(caps) : TooBig(Inner(s, caps[k]))

\* two lines whose offending digits differ
OverflowSamples == {F32 \o <<"1">>, <<"1">> \o F32}

\* C3 as stated: with skip_error = false a token that does not fit 128 bits
\* makes the call fail without an output line, with an error that carries
\* the offending digits: lines with different offending digits fail with
\* different errors.
C3_ErrorCarriesValue ==
    (Called /\ ~hskip /\ HasTooBig(hline, hcaps)) =>
        /\ ~hres.ok
        /\ DOMAIN hres = {"ok", "err"}
        /\ \A l \in OverflowSamples :
              FirstTooBig(l) # FirstTooBig(hline) =>
                  hex2dec_line(l, FALSE).err # hres.err

\* C3 amended: with skip_error = false a token that does not fit 128 bits
\* makes the call fail without an output line (what was built is dropped),
\* with a ParseIntError of kind PosOverflow that holds nothing else.
C3_OverflowAborts ==
    (Called /\ ~hskip /\ HasTooBig(hline, hcaps)) =>
        /\ ~hres.ok
        /\ DOMAIN hres = {"ok", "err"}
        /\ hres.err = [kind |-> "PosOverflow"]

C3_Witness ==
    /\ Called /\ ~hskip
    /\ hline = <<" ", "1", "F", " ">> \o F32 \o <<"1">>
    /\ ~hres.ok

\* C4: hex2dec_line(line, true) never fails; a token that does not fit 128
\* bits is emitted as it is, and every other token of the line is converted.
C4_SkipErrorNeverFails ==
    (Called /\ hskip) =>
        /\ hres.ok
        /\ Rewritten(hline, hres.val, hcaps, 1, 0, 0)

C4_Witness ==
    /\ Called /\ hskip
    /\ hline = <<" ", "1", "F", " ">> \o F32 \o <<"1">> \o <<" ", "1", "F", " ">>
    /\ hres.ok
    /\ hres.val = <<" ", "3", "1", " ">> \o F32 \o <<"1">> \o <<" ", "3", "1", " ">>

\* C5: a token of at most 32 hex digits never overflows, with or without a
\* prefix and whatever skip_error is; a call fails only on a line that has a
\* token of more than 32 digits.
C5_OverflowThreshold ==
    Called =>
        /\ \A k \in 1..Len(hcaps) :
              Len(Inner(hline, hcaps[k])) <= U128Bits \div 4 =>
                  from_str_radix(Inner(hline, hcaps[k]), 16).ok
        /\ (\A k \in 1..Len(hcaps) :
              Len(Inner(hline, hcaps[k])) <= U128Bits \div 4) => hres.ok

C5_Witness ==
    /\ Called /\ ~hskip
    /\ hline = <<"0", "x">> \o F32
    /\ hres.ok
    /\ Len(hres.val) = 39

\* C10 as stated: in "0X" followed by at least 2 hex digits between word
\* boundaries, the digits are matched as a bare hex run.
C10_DigitsAfterUpperPrefixMatched ==
    Called =>
        \A t \in UpperPrefixTokens(hline) :
            [start |-> t.start + 2, end |-> t.end, g2 |-> t.start + 2]
                \in Range(hcaps)

\* C10 amended: "0X" followed by at least 2 hex digits between word
\* boundaries is not matched at all, neither whole nor its digits, and is
\* copied to the output unchanged.
C10_UpperPrefixNotMatched ==
    Called =>
        \A t \in UpperPrefixTokens(hline) :
            /\ \A k \in 1..Len(hcaps) :
                  hcaps[k].end <= t.start \/ t.end <= hcaps[k].start
            /\ hres.ok =>
                  LET before == hex2dec_line(Slice(hline, 0, t.start), hskip)
                      after == hex2dec_line(Slice(hline, t.end, Len(hline)), hskip)
                  IN  /\ before.ok /\ after.ok
                      /\ hres.val = before.val \o Slice(hline, t.start, t.end)
                                        \o after.val

C10_Witness ==
    /\ Called
    /\ hline = <<"0", "X", "1", "1">>
    /\ hcaps = <<>>
    /\ hres.ok /\ hres.val = hline

-----------------------------------------------------------------------------
(* The stream driver: parse_ci calling parse_stdin *)

\* the blank line of the doc comment of parse_stdin
NEWLINE_DocComment == IF windows THEN <<"\r", "\n">> ELSE <<"\r">>

NEWLINE == IF windows THEN <<"\r", "\n">> ELSE <<"\n">>

\* the largest u128 and one digit more
Overflowing == F32 \o <<"1">>

DriverLines ==
    { <<"0", "x", "1", "1", "\n">>,
      <<"\n">>,
      <<"\r", "\n">>,
      Overflowing \o <<"\n">> }

\* the kinds of io::Error that read_line may fail with
ReaderErrorKinds == {"InvalidData", "InvalidInput"}

\* the kinds of io::Error that an error_callback may build from a
\* ParseIntError
CallbackKinds == {"InvalidInput", "Other"}

Ok == [ok |-> TRUE]
Err(e) == [ok |-> FALSE, err |-> e]
IoError(kind) == [kind |-> kind]

Init ==
    /\ hline = <<>> /\ hskip = FALSE /\ hres = NotCalled /\ hcaps = <<>>
    /\ windows \in BOOLEAN
    /\ skip_parse_errors \in BOOLEAN
    /\ stop_on_error \in BOOLEAN
    /\ break_nl \in BOOLEAN
    /\ stdin \in SeqsUpTo(DriverLines, MaxLines)
    /\ nread = 0
    /\ line = <<>>
    /\ sinks = <<>>
    /\ pc = "read"
    /\ result = "none"
    /\ origin = "none"
    /\ stderr = <<>>

config == <<windows, skip_parse_errors, stop_on_error, break_nl, stdin>>

\* read_line fails: `?` returns the error at once
ReadError ==
    /\ pc = "read"
    /\ \E kind \in ReaderErrorKinds : result' = Err(IoError(kind))
    /\ origin' = "read_line"
    /\ pc' = "returned"
    /\ UNCHANGED <<config, nread, line, sinks, stderr>>
    /\ UNCHANGED hvars

\* read_line returns 0 bytes
ReadEOF ==
    /\ pc = "read"
    /\ nread = Len(stdin)
    /\ result' = Ok
    /\ pc' = "returned"
    /\ UNCHANGED <<config, nread, line, sinks, origin, stderr>>
    /\ UNCHANGED hvars

\* read_line appends a line to the buffer, and the buffer is now the newline
\* of the platform while break_nl is set
ReadBlank ==
    /\ pc = "read"
    /\ nread < Len(stdin)
    /\ break_nl /\ line \o stdin[nread + 1] = NEWLINE
    /\ line' = line \o stdin[nread + 1]
    /\ nread' = nread + 1
    /\ result' = Ok
    /\ pc' = "returned"
    /\ UNCHANGED <<config, sinks, origin, stderr>>
    /\ UNCHANGED hvars

\* read_line appends a line to the buffer, which goes on to hex2dec_line
ReadLine ==
    /\ pc = "read"
    /\ nread < Len(stdin)
    /\ ~(break_nl /\ line \o stdin[nread + 1] = NEWLINE)
    /\ line' = line \o stdin[nread + 1]
    /\ nread' = nread + 1
    /\ pc' = "transform"
    /\ UNCHANGED <<config, sinks, result, origin, stderr>>
    /\ UNCHANGED hvars

\* Ok(s) => ok_callback(s); then line.clear()
CallOk(r) ==
    /\ r.ok
    /\ sinks' = Append(sinks, [sink |-> "ok", arg |-> r.val])
    /\ line' = <<>>
    /\ pc' = "read"
    /\ UNCHANGED <<result, origin>>

\* a driver that calls the error callback and goes on although stop_on_error
CallErrStopIgnored(r) ==
    /\ ~r.ok
    /\ stop_on_error
    /\ sinks' = Append(sinks, [sink |-> "error", arg |-> r.err])
    /\ line' = <<>>
    /\ pc' = "read"
    /\ UNCHANGED <<result, origin>>

\* Err(e) with stop_on_error: return Err(error_callback(e))
CallErrStop(r) ==
    /\ ~r.ok
    /\ stop_on_error
    /\ sinks' = Append(sinks, [sink |-> "error", arg |-> r.err])
    /\ \E kind \in CallbackKinds : result' = Err(IoError(kind))
    /\ origin' = "hex2dec_line"
    /\ pc' = "returned"
    /\ UNCHANGED line

\* a driver whose error arm leaves the loop body before line.clear()
CallErrContinueNoClear(r) ==
    /\ ~r.ok
    /\ ~stop_on_error
    /\ sinks' = Append(sinks, [sink |-> "error", arg |-> r.err])
    /\ pc' = "read"
    /\ UNCHANGED <<line, result, origin>>

\* Err(e) without stop_on_error: error_callback(e); then line.clear()
CallErrContinue(r) ==
    /\ ~r.ok
    /\ ~stop_on_error
    /\ sinks' = Append(sinks, [sink |-> "error", arg |-> r.err])
    /\ line' = <<>>
    /\ pc' = "read"
    /\ UNCHANGED <<result, origin>>

\* the match on hex2dec_line(&line, skip_parse_errors) and what follows it
\* in the loop body
Transform ==
    /\ pc = "transform"
    /\ LET r == hex2dec_line(line, skip_parse_errors)
       IN  \/ CallOk(r)
           \/ CallErrStop(r)
           \/ CallErrContinue(r)
    /\ UNCHANGED <<config, nread, stderr>>
    /\ UNCHANGED hvars

\* parse_ci: parse_stdin returned Ok, nothing is printed
CiOk ==
    /\ pc = "returned"
    /\ result.ok
    /\ pc' = "exit"
    /\ UNCHANGED <<config, nread, line, sinks, result, origin, stderr>>
    /\ UNCHANGED hvars

\* parse_ci: parse_stdin returned Err(e), the message is chosen by e.kind()
CiErr ==
    /\ pc = "returned"
    /\ ~result.ok
    /\ stderr' = Append(stderr,
                        IF result.err.kind = "InvalidInput"
                        THEN "An error occured in hex2dec_line."
                        ELSE "An error occured in parse_stdin.")
    /\ pc' = "exit"
    /\ UNCHANGED <<config, nread, line, sinks, result, origin>>
    /\ UNCHANGED hvars

Next ==
    \/ ReadError
    \/ ReadEOF
    \/ ReadBlank
    \/ ReadLine
    \/ Transform
    \/ CiOk
    \/ CiErr

Spec == Init /\ [][Next]_vars

-----------------------------------------------------------------------------
(* Claims about the stream driver, checked under Spec *)

\* what hex2dec_line makes of each line of the input, by skip_error
Transformed ==
    [l \in DriverLines |-> [skip \in BOOLEAN |-> hex2dec_line(l, skip)]]

\* the callback invocation that the i-th line of the input calls for
ExpectedCall(i) ==
    LET r == Transformed[stdin[i]][skip_parse_errors]
    IN  IF r.ok THEN [sink |-> "ok", arg |-> r.val]
        ELSE [sink |-> "error", arg |-> r.err]

Overflows(i) == ~Transformed[stdin[i]][FALSE].ok

ErrorCalls == {i \in 1..Len(sinks) : sinks[i].sink = "error"}

Returned == pc \in {"returned", "exit"}

\* the newline of the platform the driver was built for
PlatformNewline == IF windows THEN <<"\r", "\n">> ELSE <<"\n">>

\* C6: with skip_parse_errors = false and stop_on_error = true, the first
\* line whose transform overflows is reported to the error sink once and the
\* driver returns failure: every line before it went to the success sink, no
\* later line is read and no sink is invoked again.
C6_StopOnFirstOverflow ==
    (~skip_parse_errors /\ stop_on_error) =>
        /\ Cardinality(ErrorCalls) <= 1
        /\ (nread >= 1 /\ Overflows(nread) /\ pc # "transform") =>
              ErrorCalls = {nread}
        /\ ErrorCalls # {} =>
              /\ ErrorCalls = {nread}
              /\ Len(sinks) = nread
              /\ Overflows(nread)
              /\ \A i \in 1..(nread - 1) :
                    /\ ~Overflows(i)
                    /\ sinks[i] = [sink |-> "ok",
                                   arg |-> Transformed[stdin[i]][FALSE].val]
              /\ sinks[nread] = [sink |-> "error", arg |-> PosOverflow]
              /\ Returned
              /\ ~result.ok
              /\ origin = "hex2dec_line"

C6_Witness ==
    /\ ~skip_parse_errors /\ stop_on_error
    /\ stdin = << <<"0", "x", "1", "1", "\n">>, Overflowing \o <<"\n">>,
                  <<"0", "x", "1", "1", "\n">> >>
    /\ pc = "exit"
    /\ nread = 2
    /\ sinks = << [sink |-> "ok", arg |-> <<" ", " ", "1", "7", "\n">>],
                  [sink |-> "error", arg |-> PosOverflow] >>
    /\ ~result.ok

\* C7: with skip_parse_errors = false and stop_on_error = false, every line
\* read is followed by exactly one callback invocation before the next line
\* is read, the success sink with the transform of that line alone or the
\* error sink if that line overflows, in input order; a failing line changes
\* nothing for the lines after it; the driver never fails on a parse error,
\* and when the input ends it returns success with every line processed.
C7_ReportAndContinue ==
    (~skip_parse_errors /\ ~stop_on_error) =>
        /\ pc = "transform" => Len(sinks) = nread - 1
        /\ pc = "read" => Len(sinks) = nread
        /\ \A i \in 1..Len(sinks) : sinks[i] = ExpectedCall(i)
        /\ Returned =>
              /\ origin # "hex2dec_line"
              /\ origin = "none" => result.ok
              /\ origin = "none" =>
                    \/ nread = Len(stdin) /\ Len(sinks) = Len(stdin)
                    \/ /\ break_nl /\ stdin[nread] = PlatformNewline
                       /\ Len(sinks) = nread - 1
              /\ (origin = "none" /\ ~break_nl) =>
                    nread = Len(stdin) /\ Len(sinks) = Len(stdin)

C7_Witness ==
    /\ ~skip_parse_errors /\ ~stop_on_error
    /\ stdin = << Overflowing \o <<"\n">>, <<"0", "x", "1", "1", "\n">> >>
    /\ pc = "exit"
    /\ result.ok
    /\ sinks = << [sink |-> "error", arg |-> PosOverflow],
                  [sink |-> "ok", arg |-> <<" ", " ", "1", "7", "\n">>] >>

C9_DiagnosticNamesLayer ==
    (pc = "exit" /\ ~result.ok) =>
        /\ origin = "hex2dec_line" =>
              stderr = <<"An error occured in hex2dec_line.">>
        /\ origin = "read_line" =>
              stderr = <<"An error occured in parse_stdin.">>

=============================================================================
